---- MODULE Spec2Model ----
(***************************************************************************)
(* Flight Pairing Finder (flight_pairing_finder_full.py, the fuller of the *)
(* two variants; flight_pairing_app.py is the same script without Boosted  *)
(* Hours, the excluded-dates filter and the guarded sort).                 *)
(*                                                                         *)
(* The Streamlit script runs top to bottom on every interaction: it reads  *)
(* the uploaded CSV, enriches it (parse_flight_pairings_csv, cached),      *)
(* reads the sidebar widgets, filters, sorts and displays.  One action of  *)
(* this module is one such run.                                            *)
(*                                                                         *)
(* Units.  Instants are whole seconds since 2025-01-01 00:00 (the model's  *)
(* inputs all lie in 2025, the year of the holiday list).  Durations are   *)
(* whole seconds; the code's hour values are these divided by 3600, so an  *)
(* "hours" column is kept here in seconds and hour thresholds are scaled   *)
(* by 3600.  Quotients (flights per day, block hours per day) are kept as  *)
(* exact fractions [n, d] with d > 0.                                      *)
(***************************************************************************)
EXTENDS Integers, Sequences, FiniteSets, TLC

VARIABLES
    pc,           \* where the last script run ended
    csv,          \* the uploaded file: its header and its rows of text cells
    ret,          \* what parse_flight_pairings_csv returned (the cached value)
    st_error,     \* the column names st.error reported, as a sequence
    exc,          \* the exception the last run died of, "none" otherwise
    w,            \* the sidebar widgets' values
    filtered_df,  \* the table the last run displayed
    prev_df       \* the table displayed by the run before (for comparisons)

vars == <<pc, csv, ret, st_error, exc, w, filtered_df, prev_df>>

-----------------------------------------------------------------------------
(* Bounds of the model.                                                    *)

MaxRows == 2          \* rows of an uploaded table (pipeline specifications)
MaxChanged == 2       \* sidebar widgets moved away from their defaults
MaxTokens == 5        \* dash-separated pieces of a generated details string
BoostDays == 5        \* days of the window the boosted-hours inputs span

-----------------------------------------------------------------------------
(* Missing values.  pandas' NaT / NaN, produced by errors='coerce' and by  *)
(* empty cells; no instant, duration or number of the model equals it.     *)

NaN == -1000000
isna(x) == x = NaN

Min(a, b) == IF a <= b THEN a ELSE b
Max(a, b) == IF a >= b THEN a ELSE b

SecPerDay == 86400
SecPerHour == 3600

-----------------------------------------------------------------------------
(* Text cells and their parsers.                                           *)

\* A Departure/Arrival cell: text of the shape "Mon DD,2025 HH:MM" (wf) with
\* the numbers it shows, or any other text.
TS(mon, day, hh, mi) == [wf |-> TRUE, mon |-> mon, day |-> day, hh |-> hh, mi |-> mi]
BadTime == [wf |-> FALSE, mon |-> 0, day |-> 0, hh |-> 0, mi |-> 0]

DaysInMonth == <<31, 28, 31, 30, 31, 30, 31, 31, 30, 31, 30, 31>>

RECURSIVE DaysBefore(_)
DaysBefore(mon) == IF mon <= 1 THEN 0 ELSE DaysInMonth[mon - 1] + DaysBefore(mon - 1)

\* pd.to_datetime(..., format='%b %d,%Y %H:%M', errors='coerce')
to_datetime(c) ==
    IF /\ c.wf
       /\ c.mon \in 1..12
       /\ c.day >= 1 /\ c.day <= DaysInMonth[c.mon]
       /\ c.hh \in 0..23
       /\ c.mi \in 0..59
    THEN (DaysBefore(c.mon) + c.day - 1) * SecPerDay + c.hh * SecPerHour + c.mi * 60
    ELSE NaN

\* A Block hours cell: text "H:MM" (wf) or any other text.
BH(h, m) == [wf |-> TRUE, h |-> h, m |-> m]
BadBlock == [wf |-> FALSE, h |-> 0, m |-> 0]

\* pd.to_timedelta(cell + ':00', errors='coerce')
to_timedelta(c) ==
    IF c.wf /\ c.h >= 0 /\ c.m \in 0..59
    THEN c.h * SecPerHour + c.m * 60
    ELSE NaN

\* A Duration cell: an integer literal, other text, or empty.
DurInt(n) == [k |-> "int", n |-> n]
DurText == [k |-> "text", n |-> 0]
DurEmpty == [k |-> "empty", n |-> 0]

\* A Pairing details cell: a sequence of characters, or empty.
NoDetails == <<"<empty cell>">>
JoinDash(a, b) == a \o <<"-">> \o b
PTY == <<"P", "T", "Y">>
JFK == <<"J", "F", "K">>
MIA == <<"M", "I", "A">>

-----------------------------------------------------------------------------
(* Calendar of an instant.                                                 *)

normalize(t) == (t \div SecPerDay) * SecPerDay
date(t) == t \div SecPerDay
\* Monday = 0 ... Sunday = 6; 2025-01-01 is a Wednesday.
dayofweek(t) == (2 + date(t)) % 7
all_weekdays == <<"monday", "tuesday", "wednesday", "thursday", "friday", "saturday", "sunday">>
day_name(t) == IF isna(t) THEN "nan" ELSE all_weekdays[dayofweek(t) + 1]
time_of_day(t) == t % SecPerDay
\* .dt.date.astype(str): the date's text, "NaT" for a missing instant.  Dates
\* are day numbers here, and NaN itself stands for the text "NaT".
date_str(t) == IF isna(t) THEN NaN ELSE date(t)

-----------------------------------------------------------------------------
(* Fractions: the code's float quotients, kept exact.                      *)

Frac(n, d) == IF d < 0 THEN [n |-> -n, d |-> -d] ELSE [n |-> n, d |-> d]
Zero == Frac(0, 1)
FracLE(a, b) == a.n * b.d <= b.n * a.d
FracEQ(a, b) == a.n * b.d = b.n * a.d

-----------------------------------------------------------------------------
(* Roundtrips.                                                             *)

home_base == PTY

\* str.split('-')
RECURSIVE split(_)
split(s) ==
    IF \E i \in 1..Len(s) : s[i] = "-"
    THEN LET i == CHOOSE k \in 1..Len(s) : s[k] = "-" /\ \A j \in 1..(k - 1) : s[j] # "-"
         IN  <<SubSeq(s, 1, i - 1)>> \o split(SubSeq(s, i + 1, Len(s)))
    ELSE <<s>>

\* str.strip()
RECURSIVE strip(_)
strip(s) ==
    IF s = <<>> THEN s
    ELSE IF Head(s) = " " THEN strip(Tail(s))
    ELSE IF s[Len(s)] = " " THEN strip(SubSeq(s, 1, Len(s) - 1))
    ELSE s

\* The loop of count_roundtrips over airport_list from position i on.
RECURSIVE roundtrip_loop(_, _, _, _)
roundtrip_loop(airport_list, i, found_first_pty, pty_count_after_first) ==
    IF i > Len(airport_list) THEN pty_count_after_first
    ELSE IF airport_list[i] = home_base
         THEN IF found_first_pty
              THEN roundtrip_loop(airport_list, i + 1, TRUE, pty_count_after_first + 1)
              ELSE roundtrip_loop(airport_list, i + 1, TRUE, pty_count_after_first)
         ELSE roundtrip_loop(airport_list, i + 1, found_first_pty, pty_count_after_first)

\* Mutant: the pieces taken as split leaves them, blanks kept.
airport_list_unstripped(pairing_details) == split(pairing_details)

airport_list_of(pairing_details) ==
    LET parts == split(pairing_details)
    IN  [i \in 1..Len(parts) |-> strip(parts[i])]

count_roundtrips(pairing_details) ==
    IF pairing_details = NoDetails THEN 0
    ELSE roundtrip_loop(airport_list_of(pairing_details), 1, FALSE, 0)

\* df['Pairing details'].astype(str): an empty cell becomes the text "nan".
astype_str(cell) == IF cell = NoDetails THEN <<"n", "a", "n">> ELSE cell

-----------------------------------------------------------------------------
(* Duration column: pd.read_csv's type inference, then the per-row uses.   *)

\* The column is numeric when every non-empty cell is a number; one cell of
\* other text makes it an object column whose cells all stay text.
duration_is_numeric(rows) == \A i \in 1..Len(rows) : rows[i].Duration.k # "text"

read_duration(cell, numeric) ==
    IF cell.k = "empty" THEN [k |-> "nan", n |-> 0]
    ELSE IF cell.k = "text" THEN [k |-> "text", n |-> 0]
    ELSE IF numeric THEN [k |-> "num", n |-> cell.n]
    ELSE [k |-> "numstr", n |-> cell.n]

\* pd.to_numeric(df['Duration'], errors='coerce')
to_numeric(d) == IF d.k \in {"num", "numstr"} THEN d.n ELSE NaN

\* str.count('-')
RECURSIVE count_dashes(_)
count_dashes(s) ==
    IF s = <<>> THEN 0
    ELSE (IF Head(s) = "-" THEN 1 ELSE 0) + count_dashes(Tail(s))

\* calculate_actual_flights_per_day: the value, or the TypeError of int / str.
calculate_actual_flights_per_day(pairing_details, duration) ==
    IF pairing_details = NoDetails \/ duration.k = "nan" \/ (duration.k = "num" /\ duration.n = 0)
    THEN [raises |-> FALSE, v |-> Zero]
    ELSE IF duration.k # "num"
    THEN [raises |-> TRUE, v |-> Zero]
    ELSE [raises |-> FALSE, v |-> Frac(count_dashes(pairing_details) + 1, duration.n)]

\* The lambda of 'Block Hours per Pairing Day' (seconds per day).
block_hours_per_pairing_day(block_td, days) ==
    IF ~isna(block_td) /\ ~isna(days) /\ days > 0
    THEN Frac(block_td, days)
    ELSE Zero

-----------------------------------------------------------------------------
(* Boosted hours (weekend or holiday), in seconds.                         *)

holidays_2025 ==
    { <<1, 1>>, <<3, 4>>, <<4, 18>>, <<5, 1>>, <<11, 3>>, <<11, 4>>, <<11, 5>>,
      <<11, 10>>, <<11, 28>>, <<12, 8>>, <<12, 25>> }

\* pd.to_datetime(holidays_2025).normalize(): the holidays' midnights.
holidays_dt == { (DaysBefore(h[1]) + h[2] - 1) * SecPerDay : h \in holidays_2025 }

\* replace(hour=23, minute=59, second=59) of a midnight
end_of_day(midnight) == midnight + 23 * SecPerHour + 59 * 60 + 59

\* "Full weekend days in between": the while loop from current_day on.
RECURSIVE between_loop(_, _, _)
between_loop(current_day, arr, boosted) ==
    IF current_day < normalize(arr)
    THEN between_loop(current_day + SecPerDay, arr,
                      IF dayofweek(current_day) >= 5 THEN boosted + 24 * SecPerHour ELSE boosted)
    ELSE boosted

\* "Holidays": the while loop from current_day on.
RECURSIVE holiday_loop(_, _, _, _)
holiday_loop(current_day, dep, arr, boosted) ==
    IF current_day <= normalize(arr)
    THEN LET overlap_start == Max(dep, current_day)
             overlap_end == Min(arr, end_of_day(current_day))
         IN  holiday_loop(current_day + SecPerDay, dep, arr,
                          IF current_day \in holidays_dt /\ overlap_start < overlap_end
                          THEN boosted + (overlap_end - overlap_start)
                          ELSE boosted)
    ELSE boosted

\* The sum calc_boosted builds before its final min.
boosted_sum(dep, arr) ==
    LET dep_part == IF dayofweek(dep) >= 5
                    THEN Max(0, Min(arr, end_of_day(normalize(dep))) - dep)
                    ELSE 0
        arr_part == IF dayofweek(arr) >= 5 /\ date(arr) # date(dep)
                    THEN Max(0, arr - Max(dep, normalize(arr)))
                    ELSE 0
        between == between_loop(normalize(dep + SecPerDay), arr, dep_part + arr_part)
    IN  holiday_loop(normalize(dep), dep, arr, between)

\* Mutant: the sum returned without the final min.
boosted_result_uncapped(boosted, total_duration) == boosted

\* The last line of calc_boosted.
boosted_result(boosted, total_duration) == Min(boosted, total_duration)

calc_boosted(dep, arr, block_td) ==
    IF isna(dep) \/ isna(arr) \/ isna(block_td) THEN 0
    ELSE boosted_result(boosted_sum(dep, arr), block_td)

-----------------------------------------------------------------------------
(* parse_flight_pairings_csv.                                              *)

required_cols == <<"Pairing", "Departure", "Arrival", "Block hours", "Pairing details", "Duration">>

RECURSIVE SelectSeq2(_, _)
\* [x for x in s if x in keep], order kept
SelectSeq2(s, keep) ==
    IF s = <<>> THEN <<>>
    ELSE (IF Head(s) \in keep THEN <<Head(s)>> ELSE <<>>) \o SelectSeq2(Tail(s), keep)

Range(s) == { s[i] : i \in 1..Len(s) }

\* Mutant: every required column named once any is missing.
missing_cols_all(columns) ==
    IF Range(required_cols) \subseteq columns THEN <<>> ELSE required_cols

missing_cols(columns) == SelectSeq2(required_cols, Range(required_cols) \ columns)

derived_cols ==
    { "Departure Day", "Arrival Day", "Roundtrips", "Actual Flights per Day",
      "Pairing Duration Days", "Block Hours per Pairing Day", "Block hours total",
      "Boosted Hours" }

\* One row of the enriched table; idx is the DataFrame index label.
enrich_row(raw, i, numeric) ==
    LET dep == to_datetime(raw.Departure)
        arr == to_datetime(raw.Arrival)
        block_td == to_timedelta(raw.Block_hours)
        duration == read_duration(raw.Duration, numeric)
        days == to_numeric(duration)
    IN  [ idx |-> i,
          Departure |-> dep,
          Arrival |-> arr,
          Block_hours |-> block_td,
          Pairing_details |-> raw.Pairing_details,
          Duration |-> duration,
          Departure_Day |-> day_name(dep),
          Arrival_Day |-> day_name(arr),
          Roundtrips |-> count_roundtrips(astype_str(raw.Pairing_details)),
          Actual_Flights_per_Day |->
              calculate_actual_flights_per_day(raw.Pairing_details, duration).v,
          Pairing_Duration_Days |-> days,
          Block_Hours_per_Pairing_Day |-> block_hours_per_pairing_day(block_td, days),
          Block_hours_total |-> block_td,
          Boosted_Hours |-> calc_boosted(dep, arr, block_td) ]

\* What the call does: the DataFrame it returns (its columns and rows), the
\* names st.error reported, and the exception that ends it, if any.
parse_flight_pairings_csv(file) ==
    LET missing == missing_cols(file.columns)
        numeric == duration_is_numeric(file.rows)
        raises == \E i \in 1..Len(file.rows) :
                      calculate_actual_flights_per_day(
                          file.rows[i].Pairing_details,
                          read_duration(file.rows[i].Duration, numeric)).raises
    IN  IF missing # <<>>
        THEN [ df |-> [type |-> "DataFrame", columns |-> {}, rows |-> <<>>],
               st_error |-> missing, exc |-> "none" ]
        ELSE IF raises
        THEN [ df |-> [type |-> "none", columns |-> {}, rows |-> <<>>],
               st_error |-> <<>>, exc |-> "TypeError" ]
        ELSE [ df |-> [ type |-> "DataFrame",
                        columns |-> file.columns \cup derived_cols,
                        rows |-> [i \in 1..Len(file.rows) |->
                                     enrich_row(file.rows[i], i, numeric)] ],
               st_error |-> <<>>, exc |-> "none" ]

-----------------------------------------------------------------------------
(* The sidebar.  An "Any" select box and an unset time input are the empty *)
(* set, a choice is a one-element set; a numeric input of 0 is inactive.   *)
(* Weekday choices are kept in the lower case the code compares them in,   *)
(* hour thresholds in whole hours.                                         *)

default_widgets ==
    [ specific_departure_date |-> {},
      specific_arrival_date |-> {},
      excluded_dates |-> {},
      preferred_departure_weekday |-> {},
      preferred_arrival_weekday |-> {},
      preferred_weekdays |-> {},
      earliest_departure |-> {},
      earliest_arrival |-> {},
      min_duration |-> 0,
      max_duration |-> 0,
      max_roundtrips |-> 0,
      max_actual_flights_per_day |-> 0,
      min_block_hours_per_day |-> 0,
      sort_column |-> "Departure",
      sort_ascending |-> FALSE ]

sort_options ==
    { "Departure", "Arrival", "Block hours total", "Boosted Hours",
      "Block Hours per Pairing Day", "Roundtrips", "Actual Flights per Day" }

-----------------------------------------------------------------------------
(* Filtering.                                                              *)

\* filtered_df[mask] is SelectSeq: the rows that satisfy the mask, in order.

\* pd.date_range(dep, arr) steps one day at a time from dep while <= arr;
\* all_days_in asks that each step's weekday be among the preferred ones.
RECURSIVE range_days_in(_, _, _)
range_days_in(current, arr, preferred) ==
    IF current > arr THEN TRUE
    ELSE /\ day_name(current) \in preferred
         /\ range_days_in(current + SecPerDay, arr, preferred)

all_days_in(row, preferred) == range_days_in(row.Departure, row.Arrival, preferred)

\* pd.date_range raises ValueError when either end is NaT.
date_range_raises(row) == isna(row.Departure) \/ isna(row.Arrival)

\* The rows left after the date, excluded-date and weekday filters, which
\* run before the whole-span filter.
before_span(rows, f) ==
    LET a == IF f.specific_departure_date # {}
             THEN SelectSeq(rows, LAMBDA r : date_str(r.Departure) \in f.specific_departure_date)
             ELSE rows
        b == IF f.specific_arrival_date # {}
             THEN SelectSeq(a, LAMBDA r : date_str(r.Arrival) \in f.specific_arrival_date)
             ELSE a
        c == IF f.excluded_dates # {}
             THEN SelectSeq(b, LAMBDA r : /\ date_str(r.Departure) \notin f.excluded_dates
                                       /\ date_str(r.Arrival) \notin f.excluded_dates)
             ELSE b
        d == IF f.preferred_departure_weekday # {}
             THEN SelectSeq(c, LAMBDA r : r.Departure_Day \in f.preferred_departure_weekday)
             ELSE c
    IN  IF f.preferred_arrival_weekday # {}
        THEN SelectSeq(d, LAMBDA r : r.Arrival_Day \in f.preferred_arrival_weekday)
        ELSE d

\* The whole-span weekday filter on the rows that reach it.
span_filter(rows, f) ==
    IF f.preferred_weekdays # {}
    THEN SelectSeq(rows, LAMBDA r : all_days_in(r, f.preferred_weekdays))
    ELSE rows

span_raises(rows, f) ==
    /\ f.preferred_weekdays # {}
    /\ \E i \in 1..Len(rows) : date_range_raises(rows[i])

\* The time-of-day and numeric filters, which run after it.  A comparison
\* with a missing value is False.
after_span(rows, f) ==
    LET a == IF f.earliest_departure # {}
             THEN SelectSeq(rows, LAMBDA r : /\ ~isna(r.Departure)
                                          /\ \A t \in f.earliest_departure :
                                                 time_of_day(r.Departure) >= t)
             ELSE rows
        b == IF f.earliest_arrival # {}
             THEN SelectSeq(a, LAMBDA r : /\ ~isna(r.Arrival)
                                       /\ \A t \in f.earliest_arrival :
                                              time_of_day(r.Arrival) >= t)
             ELSE a
        c == IF f.min_duration > 0
             THEN SelectSeq(b, LAMBDA r : /\ ~isna(r.Block_hours_total)
                                       /\ r.Block_hours_total >= f.min_duration * SecPerHour)
             ELSE b
        d == IF f.max_duration > 0
             THEN SelectSeq(c, LAMBDA r : /\ ~isna(r.Block_hours_total)
                                       /\ r.Block_hours_total <= f.max_duration * SecPerHour)
             ELSE c
        e == IF f.max_roundtrips > 0
             THEN SelectSeq(d, LAMBDA r : r.Roundtrips <= f.max_roundtrips)
             ELSE d
        g == IF f.max_actual_flights_per_day > 0
             THEN SelectSeq(e, LAMBDA r : FracLE(r.Actual_Flights_per_Day,
                                              Frac(f.max_actual_flights_per_day, 1)))
             ELSE e
    IN  IF f.min_block_hours_per_day > 0
        THEN SelectSeq(g, LAMBDA r : FracLE(Frac(f.min_block_hours_per_day * SecPerHour, 1),
                                         r.Block_Hours_per_Pairing_Day))
        ELSE g

\* The whole "# --- Filtering ---" block: the rows left, or the exception.
filter_block(rows, f) ==
    LET reach == before_span(rows, f)
    IN  IF span_raises(reach, f)
        THEN [rows |-> <<>>, exc |-> "ValueError"]
        ELSE [rows |-> after_span(span_filter(reach, f), f), exc |-> "none"]

-----------------------------------------------------------------------------
(* Sorting: DataFrame.sort_values(by=sort_column, ascending=...), with its *)
(* defaults na_position='last' and kind='quicksort'.  Missing keys go last *)
(* in their incoming order; quicksort is not a stable sort, so the order   *)
(* of rows with equal keys is any order.                                   *)

sort_key(row, column) ==
    CASE column = "Departure" -> Frac(row.Departure, 1)
      [] column = "Arrival" -> Frac(row.Arrival, 1)
      [] column = "Block hours total" -> Frac(row.Block_hours_total, 1)
      [] column = "Boosted Hours" -> Frac(row.Boosted_Hours, 1)
      [] column = "Block Hours per Pairing Day" -> row.Block_Hours_per_Pairing_Day
      [] column = "Roundtrips" -> Frac(row.Roundtrips, 1)
      [] column = "Actual Flights per Day" -> row.Actual_Flights_per_Day

key_isna(row, column) ==
    CASE column = "Departure" -> isna(row.Departure)
      [] column = "Arrival" -> isna(row.Arrival)
      [] column = "Block hours total" -> isna(row.Block_hours_total)
      [] OTHER -> FALSE

index_orders(n) == { p \in [1..n -> 1..n] : \A i, j \in 1..n : p[i] = p[j] => i = j }

\* Mutant: rows with a missing key put last in reversed incoming order.
is_sorted_outcome_na_reversed(rows, p, column, ascending) ==
    \A i, j \in 1..Len(rows) :
        i < j =>
            LET a == rows[p[i]]
                b == rows[p[j]]
            IN  IF key_isna(a, column) THEN key_isna(b, column) /\ p[i] > p[j]
                ELSE \/ key_isna(b, column)
                     \/ IF ascending
                        THEN FracLE(sort_key(a, column), sort_key(b, column))
                        ELSE FracLE(sort_key(b, column), sort_key(a, column))

\* Whether taking rows in the order p (out[i] = rows[p[i]]) is an order
\* sort_values may return.
is_sorted_outcome(rows, p, column, ascending) ==
    \A i, j \in 1..Len(rows) :
        i < j =>
            LET a == rows[p[i]]
                b == rows[p[j]]
            IN  IF key_isna(a, column) THEN key_isna(b, column) /\ p[i] < p[j]
                ELSE \/ key_isna(b, column)
                     \/ IF ascending
                        THEN FracLE(sort_key(a, column), sort_key(b, column))
                        ELSE FracLE(sort_key(b, column), sort_key(a, column))

sort_values(rows, column, ascending) ==
    { [i \in 1..Len(rows) |-> rows[p[i]]] :
        p \in { q \in index_orders(Len(rows)) : is_sorted_outcome(rows, q, column, ascending) } }

\* Mutant: the "Sort ascending" box ignored.
sorting_block_ascending_only(rows, columns, f) ==
    IF f.sort_column \in columns
    THEN sort_values(rows, f.sort_column, TRUE)
    ELSE {rows}

\* The "# Sorting" block: no sort when the column is not in the table.
sorting_block(rows, columns, f) ==
    IF f.sort_column \in columns
    THEN sort_values(rows, f.sort_column, f.sort_ascending)
    ELSE {rows}

\* Filtering then sorting of a table: the tables it may display, or the
\* exception.
evaluate(rows, columns, f) ==
    LET fb == filter_block(rows, f)
    IN  IF fb.exc # "none"
        THEN { [rows |-> <<>>, exc |-> fb.exc] }
        ELSE { [rows |-> out, exc |-> "none"] : out \in sorting_block(fb.rows, columns, f) }

-----------------------------------------------------------------------------
(* One run of the script on an uploaded file with the widgets at f: the    *)
(* states it may end in.  parse_flight_pairings_csv is cached on the file, *)
(* so a rerun sees the value the first run got.                            *)

\* From the cached table on: lines 107-109 (an empty table stops the
\* script), then the sidebar, the filters and the sort.
show(p, f) ==
    IF p.df.rows = <<>>       \* df.empty: st.warning and st.stop
    THEN { [pc |-> "stopped", ret |-> p.df, st_error |-> p.st_error,
            exc |-> "none", rows |-> <<>>] }
    ELSE { [pc |-> IF e.exc = "none" THEN "shown" ELSE "crashed_filter",
            ret |-> p.df, st_error |-> p.st_error, exc |-> e.exc, rows |-> e.rows] :
           e \in evaluate(p.df.rows, p.df.columns, f) }

run_script(file, f) ==
    LET p == parse_flight_pairings_csv(file)
    IN  IF p.exc # "none"
        THEN { [pc |-> "crashed_parse", ret |-> p.df, st_error |-> p.st_error,
                exc |-> p.exc, rows |-> <<>>] }
        ELSE show(p, f)

\* A rerun after a run that got past the parse: the cache answers.
rerun_script(cached, errors, f) ==
    show([df |-> cached, st_error |-> errors, exc |-> "none"], f)

\* The settings the sidebar offers for a table: <<widget, value>> pairs.
\* The date boxes offer the dates of the table; the model offers two of the
\* seven weekdays, one threshold per time and number input, and one date
\* per exclusion.
departure_dates(rows) == { date(rows[i].Departure) : i \in { k \in 1..Len(rows) : ~isna(rows[k].Departure) } }
arrival_dates(rows) == { date(rows[i].Arrival) : i \in { k \in 1..Len(rows) : ~isna(rows[k].Arrival) } }

WeekdayChoices == {"friday", "saturday"}
EarliestChoice == 8 * SecPerHour

settings(rows) ==
    { <<"specific_departure_date", {d}>> : d \in departure_dates(rows) }
    \cup { <<"specific_arrival_date", {d}>> : d \in arrival_dates(rows) }
    \cup { <<"excluded_dates", {d}>> : d \in departure_dates(rows) \cup arrival_dates(rows) }
    \cup { <<"preferred_departure_weekday", {d}>> : d \in WeekdayChoices }
    \cup { <<"preferred_arrival_weekday", {d}>> : d \in WeekdayChoices }
    \cup { <<"preferred_weekdays", ds>> : ds \in (SUBSET WeekdayChoices) \ {{}} }
    \cup { <<"earliest_departure", {EarliestChoice}>>, <<"earliest_arrival", {EarliestChoice}>> }
    \cup { <<"min_duration", 6>>, <<"max_duration", 6>>, <<"max_roundtrips", 1>>,
           <<"max_actual_flights_per_day", 2>>, <<"min_block_hours_per_day", 3>> }
    \cup { <<"sort_column", c>> : c \in sort_options }
    \cup { <<"sort_ascending", TRUE>> }

RECURSIVE widget_values(_, _)
\* The widget values reachable from the defaults by at most k settings.
widget_values(rows, k) ==
    IF k = 0 THEN {default_widgets}
    ELSE LET less == widget_values(rows, k - 1)
         IN  less \cup { [f EXCEPT ![s[1]] = s[2]] : f \in less, s \in settings(rows) }

-----------------------------------------------------------------------------
(* Inputs.                                                                 *)

RawRow(id, dep, arr, block, details, duration) ==
    [ Pairing |-> id, Departure |-> dep, Arrival |-> arr, Block_hours |-> block,
      Pairing_details |-> details, Duration |-> duration ]

\* Rows of the pipeline specifications.  Nov 28, 2025 is a Friday and a
\* holiday; Nov 29 a Saturday; Dec 1 a Monday.
RowsMain ==
    { RawRow("A", TS(11, 28, 22, 0), TS(11, 29, 3, 0), BH(5, 0),
             JoinDash(JoinDash(PTY, JFK), PTY), DurInt(2)),
      RawRow("B", BadTime, TS(12, 1, 10, 0), BH(5, 0),
             JoinDash(JoinDash(PTY, MIA), PTY), DurInt(2)),
      RawRow("C", TS(11, 29, 8, 0), TS(12, 1, 10, 0), BadBlock, NoDetails, DurEmpty),
      RawRow("D", TS(11, 28, 6, 0), TS(11, 28, 20, 0), BH(12, 0),
             JoinDash(JoinDash(JoinDash(JoinDash(PTY, JFK), PTY), MIA), PTY), DurInt(1)),
      RawRow("E", TS(11, 29, 8, 0), TS(11, 30, 9, 0), BH(9, 30),
             JoinDash(PTY, JFK), DurText) }

RECURSIVE SeqsUpTo(_, _)
\* Sequences over S of length at most n
SeqsUpTo(S, n) ==
    IF n = 0 THEN {<<>>}
    ELSE LET less == SeqsUpTo(S, n - 1)
         IN  less \cup { Append(q, x) : q \in less, x \in S }

all_columns == Range(required_cols)

Headers == { all_columns, all_columns \ {"Duration"}, all_columns \ {"Arrival", "Duration"} }

TablesMain == { [columns |-> h, rows |-> rs] : h \in Headers, rs \in SeqsUpTo(RowsMain, MaxRows) }


\* Inputs of the field functions: one row whose details are up to MaxTokens
\* pieces joined by dashes, some padded with blanks, and whose Duration cell
\* is a number, empty, or other text.
TokenChoices == { PTY, <<" ">> \o PTY, PTY \o <<" ">>, JFK, <<>> }

RECURSIVE DetailsOf(_)
DetailsOf(n) ==
    IF n = 1 THEN TokenChoices
    ELSE { JoinDash(d, t) : d \in DetailsOf(n - 1), t \in TokenChoices }

\* pd.read_csv reads a cell without text as missing, never as the empty text.
DetailsChoices == {NoDetails} \cup (UNION { DetailsOf(n) : n \in 1..MaxTokens } \ {<<>>})

DurationChoices == { DurInt(2), DurInt(0), DurInt(-2), DurEmpty, DurText }

FieldsRow(details, duration) ==
    RawRow("F", TS(11, 28, 6, 0), TS(11, 28, 20, 0), BH(12, 0), details, duration)

\* Every details text with a two-day duration, and every Duration cell with
\* the texts of up to three pieces.
TablesFields ==
    { [columns |-> all_columns, rows |-> <<FieldsRow(d, DurInt(2))>>] : d \in DetailsChoices }
    \cup { [columns |-> all_columns, rows |-> <<FieldsRow(d, n)>>] :
           d \in {NoDetails} \cup (UNION { DetailsOf(k) : k \in 1..3 } \ {<<>>}),
           n \in DurationChoices }

\* Inputs of calc_boosted: one row whose departure and arrival lie in the
\* BoostDays days from Thursday Nov 27, 2025 on (a holiday Friday, a weekend).
WindowDate(k) == IF 27 + k <= 30 THEN <<11, 27 + k>> ELSE <<12, k - 3>>

ClockChoices == { <<0, 0>>, <<6, 30>>, <<22, 0>> }

WindowTimes ==
    {BadTime} \cup { TS(WindowDate(k)[1], WindowDate(k)[2], c[1], c[2]) :
                     k \in 0..(BoostDays - 1), c \in ClockChoices }

BlockChoices == { BH(5, 0), BH(30, 0), BH(100, 0), BadBlock }

TablesBoost ==
    { [columns |-> all_columns,
       rows |-> <<RawRow("G", dep, arr, b, JoinDash(PTY, PTY), DurInt(3))>>] :
      dep \in WindowTimes, arr \in WindowTimes, b \in BlockChoices }

-----------------------------------------------------------------------------
(* Actions.                                                                *)

no_file == [columns |-> {}, rows |-> <<>>]
no_df == [type |-> "none", columns |-> {}, rows |-> <<>>]

\* Lines 10-13: nothing uploaded, st.stop().
Init ==
    /\ pc = "no_file"
    /\ csv = no_file
    /\ ret = no_df
    /\ st_error = <<>>
    /\ exc = "none"
    /\ w = default_widgets
    /\ filtered_df = <<>>
    /\ prev_df = <<>>

\* The state a run leaves.
Ends(r, last) ==
    /\ pc' = IF r.pc = "shown" THEN last ELSE r.pc
    /\ ret' = r.ret
    /\ st_error' = r.st_error
    /\ exc' = r.exc
    /\ filtered_df' = r.rows

\* The user uploads a file: the script runs with the widgets at their
\* defaults.
Upload(tables) ==
    /\ pc = "no_file"
    /\ \E file \in tables :
          /\ csv' = file
          /\ \E r \in run_script(file, default_widgets) : Ends(r, "shown")
    /\ UNCHANGED <<w, prev_df>>

\* The user sets the sidebar (once per upload here: a run's result depends
\* on the file and the widget values only); the script reruns.
SetWidgets ==
    /\ pc \in {"shown", "crashed_filter"}
    /\ w = default_widgets
    /\ \E f \in widget_values(ret.rows, MaxChanged) \ {default_widgets} :
          /\ w' = f
          /\ \E r \in rerun_script(ret, st_error, f) : Ends(r, "shown")
    /\ UNCHANGED <<csv, prev_df>>

\* The user flips "Sort ascending"; the script reruns.  The table shown
\* before is remembered for comparison.
ToggleAscending ==
    /\ pc = "shown"
    /\ w' = [w EXCEPT !.sort_ascending = ~@]
    /\ prev_df' = filtered_df
    /\ \E r \in rerun_script(ret, st_error, w') : Ends(r, "toggled")
    /\ UNCHANGED csv

\* The filter-and-sort pass applied to the table it displayed, with the
\* same widget values (evaluate on its own output).
Again ==
    /\ pc = "shown"
    /\ prev_df' = filtered_df
    /\ \E e \in evaluate(filtered_df, ret.columns, w) :
          /\ pc' = IF e.exc = "none" THEN "reevaluated" ELSE "crashed_filter"
          /\ exc' = e.exc
          /\ filtered_df' = e.rows
    /\ UNCHANGED <<csv, ret, st_error, w>>

\* The user removes the file: the script stops at line 13 and the widgets,
\* no longer rendered, lose their values.
Clear ==
    /\ pc # "no_file"
    /\ pc' = "no_file"
    /\ csv' = no_file
    /\ ret' = no_df
    /\ st_error' = <<>>
    /\ exc' = "none"
    /\ w' = default_widgets
    /\ filtered_df' = <<>>
    /\ prev_df' = <<>>

\* The application.
Next == Upload(TablesMain) \/ SetWidgets \/ ToggleAscending \/ Clear
Spec == Init /\ [][Next]_vars

\* The application, and its filter-and-sort pass applied to its own output.
NextEval == Upload(TablesMain) \/ SetWidgets \/ ToggleAscending \/ Again \/ Clear
SpecEval == Init /\ [][NextEval]_vars

\* The field functions on generated details and durations.
NextFields == Upload(TablesFields) \/ Clear
SpecFields == Init /\ [][NextFields]_vars

\* calc_boosted on generated departures, arrivals and block hours.
NextBoost == Upload(TablesBoost) \/ Clear
SpecBoost == Init /\ [][NextBoost]_vars

-----------------------------------------------------------------------------
(* Properties.                                                             *)

enriched == ret.rows
displayed == pc \in {"shown", "toggled", "reevaluated"}
all_parsed(r) == ~isna(r.Departure) /\ ~isna(r.Arrival) /\ ~isna(r.Block_hours)

\* C1: for every row whose departure, arrival and block duration all parse,
\* Boosted Hours is at most that row's Block hours total.
C1_BoostedAtMostBlock ==
    \A i \in 1..Len(enriched) :
        all_parsed(enriched[i]) => enriched[i].Boosted_Hours <= enriched[i].Block_hours_total

\* A row spanning the holiday Friday and the weekend whose weekend and
\* holiday seconds exceed its block hours, so that the cap decides.
C1_Witness ==
    \E i \in 1..Len(enriched) :
        LET r == enriched[i]
        IN  /\ all_parsed(r)
            /\ date(r.Arrival) - date(r.Departure) >= 3
            /\ boosted_sum(r.Departure, r.Arrival) > r.Block_hours_total
            /\ r.Boosted_Hours = r.Block_hours_total

\* The seconds of [dep, arr] that lie on a Saturday, a Sunday or a holiday
\* date, day by day from day d on, each day's full overlap counted once.
premium_day(d) == (2 + d) % 7 >= 5 \/ d * SecPerDay \in holidays_dt

RECURSIVE premium_seconds(_, _, _)
premium_seconds(d, dep, arr) ==
    IF d > date(arr) THEN 0
    ELSE (IF premium_day(d)
          THEN Max(0, Min(arr, (d + 1) * SecPerDay) - Max(dep, d * SecPerDay))
          ELSE 0) + premium_seconds(d + 1, dep, arr)

\* C10: for every row with parsed departure <= arrival and parsed block
\* duration, Boosted Hours is the smaller of Block hours total and the
\* length of the part of [departure, arrival] on a Saturday, a Sunday or a
\* holiday date, each such day contributing its full overlap.
C10_BoostedIsPremiumOverlap ==
    \A i \in 1..Len(enriched) :
        LET r == enriched[i]
        IN  (all_parsed(r) /\ r.Departure <= r.Arrival) =>
                r.Boosted_Hours =
                    Min(r.Block_hours_total,
                        premium_seconds(date(r.Departure), r.Departure, r.Arrival))

\* The missing required columns of the uploaded header.
lacking == all_columns \ csv.columns

C3_EnrichmentTotal ==
    (pc # "no_file" /\ lacking = {}) =>
        /\ pc # "crashed_parse"
        /\ ret.type = "DataFrame"
        /\ Len(enriched) = Len(csv.rows)
        /\ \A i \in 1..Len(enriched) :
              /\ ~csv.rows[i].Departure.wf =>
                    isna(enriched[i].Departure) /\ enriched[i].Departure_Day = "nan"
              /\ ~csv.rows[i].Block_hours.wf =>
                    isna(enriched[i].Block_hours_total) /\ enriched[i].Boosted_Hours = 0
              /\ csv.rows[i].Duration.k # "int" =>
                    FracEQ(enriched[i].Actual_Flights_per_Day, Zero)

\* The pieces of a details text that are the home base: maximal dash-free
\* stretches a..b (possibly empty) that read PTY between blanks.
home_pieces(s) ==
    { ab \in (1..(Len(s) + 1)) \X (0..Len(s)) :
        LET a == ab[1]
            b == ab[2]
        IN  /\ a <= b + 1
            /\ a = 1 \/ s[a - 1] = "-"
            /\ b = Len(s) \/ s[b + 1] = "-"
            /\ \A k \in a..b : s[k] # "-"
            /\ \E i \in a..(b - 2) :
                  /\ s[i] = "P" /\ s[i + 1] = "T" /\ s[i + 2] = "Y"
                  /\ \A k \in (a..(i - 1)) \cup ((i + 3)..b) : s[k] = " " }

expected_roundtrips(cell) ==
    IF cell = NoDetails THEN 0 ELSE Max(0, Cardinality(home_pieces(cell)) - 1)

\* C4: Roundtrips is the number of dash-separated pieces that, blanks
\* around them trimmed, equal PTY and come after the first such piece;
\* other pieces and blanks change nothing, and missing details give 0.
C4_RoundtripsCount ==
    \A i \in 1..Len(enriched) :
        enriched[i].Roundtrips = expected_roundtrips(csv.rows[i].Pairing_details)

\* A text that starts away from base, has padded PTY pieces and two returns.
C4_Witness ==
    \E i \in 1..Len(enriched) :
        LET s == csv.rows[i].Pairing_details
        IN  /\ s # NoDetails
            /\ Len(s) > 3 /\ s[1] = "J"
            /\ \E k \in 1..Len(s) : s[k] = " "
            /\ enriched[i].Roundtrips = 2

\* C9: Actual Flights per Day is >= 0; it is (dashes + 1) / duration, and
\* 0 when the details or the duration is missing or the duration is 0.
C9_ActualFlightsPerDay ==
    \A i \in 1..Len(enriched) :
        LET cell == csv.rows[i]
            v == enriched[i].Actual_Flights_per_Day
            dashes == Cardinality({ k \in 1..Len(cell.Pairing_details) :
                                      cell.Pairing_details[k] = "-" })
        IN  /\ v.n >= 0
            /\ IF \/ cell.Pairing_details = NoDetails
                  \/ cell.Duration.k = "empty"
                  \/ (cell.Duration.k = "int" /\ cell.Duration.n = 0)
               THEN v.n = 0
               ELSE /\ cell.Duration.k = "int"
                    /\ v.n * cell.Duration.n = (dashes + 1) * v.d

-----------------------------------------------------------------------------
(* Properties of the filters and the sort.                                 *)

departure_filter_active(f) ==
    \/ f.specific_departure_date # {}
    \/ f.preferred_departure_weekday # {}
    \/ f.earliest_departure # {}

\* Every calendar date from the departure date through the arrival date
\* has its weekday among the preferred ones.
whole_span_in(r, preferred) ==
    \A d \in date(r.Departure)..date(r.Arrival) : all_weekdays[((2 + d) % 7) + 1] \in preferred

\* The filters that do not read the departure, a null failing the predicate.
passes_other_filters(r, f) ==
    /\ f.specific_arrival_date # {} => (~isna(r.Arrival) /\ date(r.Arrival) \in f.specific_arrival_date)
    /\ isna(r.Arrival) \/ date(r.Arrival) \notin f.excluded_dates
    /\ f.preferred_arrival_weekday # {} => r.Arrival_Day \in f.preferred_arrival_weekday
    /\ f.preferred_weekdays = {}
    /\ f.earliest_arrival # {} =>
          (~isna(r.Arrival) /\ \A t \in f.earliest_arrival : time_of_day(r.Arrival) >= t)
    /\ f.min_duration > 0 =>
          (~isna(r.Block_hours_total) /\ r.Block_hours_total >= f.min_duration * SecPerHour)
    /\ f.max_duration > 0 =>
          (~isna(r.Block_hours_total) /\ r.Block_hours_total <= f.max_duration * SecPerHour)
    /\ f.max_roundtrips > 0 => r.Roundtrips <= f.max_roundtrips
    /\ f.max_actual_flights_per_day > 0 =>
          r.Actual_Flights_per_Day.n <= f.max_actual_flights_per_day * r.Actual_Flights_per_Day.d
    /\ f.min_block_hours_per_day > 0 =>
          r.Block_Hours_per_Pairing_Day.n >=
              f.min_block_hours_per_day * SecPerHour * r.Block_Hours_per_Pairing_Day.d

\* C5: a row whose departure failed to parse is, with no exception raised,
\* left out whenever a filter on the departure is active and kept whenever
\* none is and the row passes the other active filters.
C5_NullDepartureRows ==
    pc \in {"shown", "toggled", "crashed_filter"} =>
        \A i \in 1..Len(enriched) :
            isna(enriched[i].Departure) =>
                /\ exc = "none"
                /\ departure_filter_active(w) => enriched[i] \notin Range(filtered_df)
                /\ (~departure_filter_active(w) /\ passes_other_filters(enriched[i], w)) =>
                      enriched[i] \in Range(filtered_df)

only_whole_span_active(f) ==
    /\ f.preferred_weekdays # {}
    /\ [f EXCEPT !.preferred_weekdays = {}, !.sort_column = "Departure", !.sort_ascending = FALSE]
          = default_widgets

\* C6: with the whole-span weekday filter active, a row with parsed
\* departure and arrival is kept exactly when every calendar date from its
\* departure date through its arrival date is on a selected weekday.
C6_WholeSpanFilter ==
    (pc \in {"shown", "toggled"} /\ only_whole_span_active(w)) =>
        \A i \in 1..Len(enriched) :
            LET r == enriched[i]
            IN  (~isna(r.Departure) /\ ~isna(r.Arrival)) =>
                    (r \in Range(filtered_df) <=> whole_span_in(r, w.preferred_weekdays))

nulls_last(rows, column) ==
    \A i, j \in 1..Len(rows) :
        (i < j /\ key_isna(rows[i], column)) => key_isna(rows[j], column)

non_null(rows, column) == SelectSeq(rows, LAMBDA r : ~key_isna(r, column))
Reverse(s) == [i \in 1..Len(s) |-> s[Len(s) + 1 - i]]
position(rows, r) == CHOOSE i \in 1..Len(rows) : rows[i] = r
distinct_keys(a, b, column) ==
    /\ ~key_isna(a, column)
    /\ ~key_isna(b, column)
    /\ ~FracEQ(sort_key(a, column), sort_key(b, column))

\* C7 (as amended): ascending and descending results hold the same rows,
\* the rows with a null sort value after all others in both, and any two
\* rows with different non-null sort values in opposite orders.
C7_ReversedWhereKeysDiffer ==
    pc = "toggled" =>
        /\ Range(filtered_df) = Range(prev_df)
        /\ Len(filtered_df) = Len(prev_df)
        /\ nulls_last(filtered_df, w.sort_column)
        /\ nulls_last(prev_df, w.sort_column)
        /\ \A a, b \in Range(filtered_df) :
              distinct_keys(a, b, w.sort_column) =>
                  (position(filtered_df, a) < position(filtered_df, b)
                      <=> position(prev_df, b) < position(prev_df, a))

\* Two rows with different sort values, shown in both directions.
C7_Witness ==
    /\ pc = "toggled"
    /\ w.sort_column = "Block hours total"
    /\ Len(filtered_df) = 2
    /\ distinct_keys(filtered_df[1], filtered_df[2], w.sort_column)
    /\ filtered_df = Reverse(prev_df)

\* C7 (as claimed): null sort values last in both directions, and the
\* non-null rows in exactly reversed order.
C7_ExactlyReversed ==
    pc = "toggled" =>
        /\ nulls_last(filtered_df, w.sort_column)
        /\ nulls_last(prev_df, w.sort_column)
        /\ non_null(filtered_df, w.sort_column) = Reverse(non_null(prev_df, w.sort_column))

====
